---- MODULE Spec2Model ----
(***************************************************************************)
(* Gofr: the RSS 2.0 canonicalizer (src/rss/rss2.go) and the JSON          *)
(* subscribe handler (src/unnamed/part_000).                               *)
(*                                                                         *)
(* Go strings are modelled as sequences of one-character strings, so that  *)
(* strings.Contains, strings.Replace, strings.HasSuffix, strings.Split and *)
(* strings.ToLower are computed character by character.                    *)
(***************************************************************************)
EXTENDS Integers, Sequences, FiniteSets, TLC

VARIABLES
    timezones,   \* rss2.go:90   the package-level timezoneList
    call,        \* which function the last step called ("init", "parseRSS2Time", ...)
    arg,         \* the argument of that call
    ret,         \* what the call returned
    store,            \* the datastore the storage package answers from
    pc,               \* subscribe: "idle", the call it makes next, or "done"
    subscriptionURL,  \* part_000:194
    folderId,         \* part_000:195
    body,             \* part_000:263-268  the document the fetch brought
    log,              \* the calls subscribe has made to its collaborators, in order
    tasks,            \* the tasks taskqueue.Add has accepted
    response          \* what subscribe returned

rssVars == <<timezones, call, arg, ret>>

handlerVars == <<store, pc, subscriptionURL, folderId, body, log, tasks, response>>

vars == <<timezones, call, arg, ret,
          store, pc, subscriptionURL, folderId, body, log, tasks, response>>

(***************************************************************************)
(* Strings                                                                 *)
(***************************************************************************)
Digits == <<"0","1","2","3","4","5","6","7","8","9">>

UpperCase ==
  <<"A","B","C","D","E","F","G","H","I","J","K","L","M",
    "N","O","P","Q","R","S","T","U","V","W","X","Y","Z">>

LowerCase ==
  <<"a","b","c","d","e","f","g","h","i","j","k","l","m",
    "n","o","p","q","r","s","t","u","v","w","x","y","z">>

IndexIn(tab, c) ==
  IF \E i \in 1..Len(tab) : tab[i] = c
  THEN CHOOSE i \in 1..Len(tab) : tab[i] = c
  ELSE 0

\* F applied to the value of e, e evaluated once
With(e, F(_)) == CHOOSE y \in { F(x) : x \in {e} } : TRUE

\* s[from:] of Go, with from counted from 1
Drop(s, n) == SubSeq(s, n + 1, Len(s))

Take(s, n) == SubSeq(s, 1, n)

HasPrefix(s, prefix) == Len(s) >= Len(prefix) /\ Take(s, Len(prefix)) = prefix

HasSuffix(s, suffix) ==
  Len(s) >= Len(suffix) /\ Drop(s, Len(s) - Len(suffix)) = suffix

\* strings.Index, counted from 1; 0 when sub does not occur in s
Least(S) == IF S = {} THEN 0 ELSE CHOOSE i \in S : \A j \in S : i <= j

Index(s, sub) ==
  With({ i \in 1..(Len(s) - Len(sub) + 1) :
           /\ sub = <<>> \/ s[i] = sub[1]
           /\ SubSeq(s, i, i + Len(sub) - 1) = sub },
       LAMBDA at : Least(at))

Contains(s, sub) == Index(s, sub) # 0

\* strings.Replace(s, old, new, 1): the first occurrence only
Replace(s, old, new) ==
  With(Index(s, old),
       LAMBDA i : IF i = 0 THEN s
                  ELSE Take(s, i - 1) \o new \o Drop(s, i + Len(old) - 1))

\* the lower-case letter of each upper-case letter
lowerOf == [c \in {UpperCase[i] : i \in 1..Len(UpperCase)} |-> LowerCase[IndexIn(UpperCase, c)]]

ToLowerChar(c) == IF c \in DOMAIN lowerOf THEN lowerOf[c] ELSE c

ToLower(s) == [i \in 1..Len(s) |-> ToLowerChar(s[i])]

\* strings.Split(s, " "): the fields between single spaces, empty fields kept
RECURSIVE SplitFrom(_, _, _)
SplitFrom(s, from, i) ==
  IF i > Len(s) THEN <<SubSeq(s, from, Len(s))>>
  ELSE IF s[i] = " " THEN <<SubSeq(s, from, i - 1)>> \o SplitFrom(s, i + 1, i + 1)
  ELSE SplitFrom(s, from, i + 1)

Split(s) == SplitFrom(s, 1, 1)

(***************************************************************************)
(* The timezone table, rss2.go:67-134                                      *)
(***************************************************************************)
tzMap ==
  << [Code |-> <<"E","E","S","T">>, Offset |-> <<"+","0","3","0","0">>],
     [Code |-> <<"A","K","S","T">>, Offset |-> <<"-","0","9","0","0">>],
     [Code |-> <<"A","K","D","T">>, Offset |-> <<"-","0","8","0","0">>],
     [Code |-> <<"H","A","S","T">>, Offset |-> <<"-","1","0","0","0">>],
     [Code |-> <<"H","A","D","T">>, Offset |-> <<"-","0","9","0","0">>],
     [Code |-> <<"C","H","S","T">>, Offset |-> <<"+","1","0","0","0">>],
     [Code |-> <<"E","E","T">>, Offset |-> <<"+","0","2","0","0">>],
     [Code |-> <<"A","S","T">>, Offset |-> <<"-","0","4","0","0">>],
     [Code |-> <<"E","S","T">>, Offset |-> <<"-","0","5","0","0">>],
     [Code |-> <<"E","D","T">>, Offset |-> <<"-","0","4","0","0">>],
     [Code |-> <<"C","S","T">>, Offset |-> <<"-","0","6","0","0">>],
     [Code |-> <<"C","D","T">>, Offset |-> <<"-","0","5","0","0">>],
     [Code |-> <<"M","S","T">>, Offset |-> <<"-","0","7","0","0">>],
     [Code |-> <<"M","D","T">>, Offset |-> <<"-","0","6","0","0">>],
     [Code |-> <<"P","S","T">>, Offset |-> <<"-","0","8","0","0">>],
     [Code |-> <<"P","D","T">>, Offset |-> <<"-","0","7","0","0">>],
     [Code |-> <<"S","S","T">>, Offset |-> <<"-","1","1","0","0">>],
     [Code |-> <<"S","D","T">>, Offset |-> <<"-","1","0","0","0">>],
     [Code |-> <<"C","E","T">>, Offset |-> <<"+","0","1","0","0">>] >>

\* timezoneList.Swap
Swap(s, i, j) == [s EXCEPT ![i] = s[j], ![j] = s[i]]

\* Less with the comparison turned round: shorter codes before longer ones
LessShorterFirst(s, i, j) == Len(s[i].Code) < Len(s[j].Code)

\* timezoneList.Less: longer codes before shorter ones
Less(s, i, j) == Len(s[i].Code) > Len(s[j].Code)

\* sort.Sort(timezones): s rearranged (by Swap) until no entry is Less than an
\* entry before it. An insertion sort from the left; sort.Sort is not stable,
\* and the orders of equal-length codes it can leave are covered by the
\* iteration orders it is applied to.
RECURSIVE Sink(_, _)
Sink(s, j) ==
  IF j > 1 /\ Less(s, j, j - 1)
  THEN With(Swap(s, j, j - 1), LAMBDA t : Sink(t, j - 1))
  ELSE s

RECURSIVE SortFrom(_, _)
SortFrom(s, k) ==
  IF k > Len(s) THEN s
  ELSE With(Sink(s, k), LAMBDA t : SortFrom(t, k + 1))

Sort(s) == SortFrom(s, 2)

Reverse(s) == [i \in 1..Len(s) |-> s[Len(s) + 1 - i]]

Rotate(s, k) == [i \in 1..Len(s) |-> s[((i + k - 1) % Len(s)) + 1]]

\* `for code, offset := range tzMap`: Go leaves the iteration order of a map
\* unspecified, and starts each iteration at a position drawn at random. The
\* orders drawn here are the listing order of the source and its reverse,
\* each started at every position: any entry of the map can come first, and
\* any two entries come in both relative orders.
MapOrders ==
  { Rotate(o, k) : o \in {tzMap, Reverse(tzMap)}, k \in 0..(Len(tzMap) - 1) }

\* func init(): the table filled in iteration order, then sorted
init(order) == Sort(order)
supportedRSS2TimeFormats ==
  << (* Mon, 02 Jan 2006 15:04:05 -0700 *)
     <<"Mon",","," ","02"," ","Jan"," ","2006"," ","15",":","04",":","05"," ","-0700">>,
     (* 2006-01-02T15:04:05-07:00 *)
     <<"2006","-","01","-","02","T","15",":","04",":","05","-07:00">>,
     (* Mon, 02 Jan 2006 15:04:05 Z *)
     <<"Mon",","," ","02"," ","Jan"," ","2006"," ","15",":","04",":","05"," ","Z">>,
     (* Mon, 02 Jan 2006 15:04:05 *)
     <<"Mon",","," ","02"," ","Jan"," ","2006"," ","15",":","04",":","05">>,
     (* Mon, 2 Jan 2006 15:04:05 -0700 *)
     <<"Mon",","," ","2"," ","Jan"," ","2006"," ","15",":","04",":","05"," ","-0700">>,
     (* Mon, 2 Jan 2006 15:04:05 *)
     <<"Mon",","," ","2"," ","Jan"," ","2006"," ","15",":","04",":","05">>,
     (* 2 Jan 2006 15:04:05 -0700 *)
     <<"2"," ","Jan"," ","2006"," ","15",":","04",":","05"," ","-0700">>,
     (* Mon, 2 Jan 2006 15:04 -0700 *)
     <<"Mon",","," ","2"," ","Jan"," ","2006"," ","15",":","04"," ","-0700">>,
     (* Mon, 2 Jan 06 15:04:05 -0700 *)
     <<"Mon",","," ","2"," ","Jan"," ","06"," ","15",":","04",":","05"," ","-0700">>,
     (* January 2, 2006 *)
     <<"January"," ","2",","," ","2006">> >>
zoneNameLayout ==
  (* Mon, 2 Jan 2006 15:04:05 MST *)
  <<"Mon",","," ","2"," ","Jan"," ","2006"," ","15",":","04",":","05"," ","MST">>
shortDayNames ==
  << <<"S","u","n">>,
     <<"M","o","n">>,
     <<"T","u","e">>,
     <<"W","e","d">>,
     <<"T","h","u">>,
     <<"F","r","i">>,
     <<"S","a","t">> >>
shortMonthNames ==
  << <<"J","a","n">>,
     <<"F","e","b">>,
     <<"M","a","r">>,
     <<"A","p","r">>,
     <<"M","a","y">>,
     <<"J","u","n">>,
     <<"J","u","l">>,
     <<"A","u","g">>,
     <<"S","e","p">>,
     <<"O","c","t">>,
     <<"N","o","v">>,
     <<"D","e","c">> >>
longMonthNames ==
  << <<"J","a","n","u","a","r","y">>,
     <<"F","e","b","r","u","a","r","y">>,
     <<"M","a","r","c","h">>,
     <<"A","p","r","i","l">>,
     <<"M","a","y">>,
     <<"J","u","n","e">>,
     <<"J","u","l","y">>,
     <<"A","u","g","u","s","t">>,
     <<"S","e","p","t","e","m","b","e","r">>,
     <<"O","c","t","o","b","e","r">>,
     <<"N","o","v","e","m","b","e","r">>,
     <<"D","e","c","e","m","b","e","r">> >>

(***************************************************************************)
(* time.Parse of the Go standard library, for the layout elements that     *)
(* the layouts of rss2.go use.  A layout is written as the sequence of     *)
(* chunks time.nextStdChunk cuts it into: the standard elements            *)
(* ("Mon", "02", "2006", "-0700", ...) and, one by one, the literal        *)
(* characters between them.                                                *)
(***************************************************************************)
StdChunks ==
  {"Mon", "Jan", "January", "2006", "06", "01", "02", "2",
   "15", "04", "05", "-0700", "-07:00", "MST"}

\* the value of each digit
digitOf == [c \in {Digits[i] : i \in 1..Len(Digits)} |-> IndexIn(Digits, c) - 1]

isDigit(s, i) == Len(s) >= i /\ s[i] \in DOMAIN digitOf

DigitVal(c) == digitOf[c]

\* the value of a sequence of digits
RECURSIVE atoiTo(_, _)
atoiTo(s, n) == IF n = 0 THEN 0 ELSE atoiTo(s, n - 1) * 10 + DigitVal(s[n])

atoi(s) == atoiTo(s, Len(s))

AllDigits(s) == \A i \in 1..Len(s) : isDigit(s, i)

\* time.getnum: one or two digits, exactly two when fixed
getnum(s, fixed) ==
  IF ~isDigit(s, 1) THEN [ok |-> FALSE, n |-> 0, rest |-> s]
  ELSE IF ~isDigit(s, 2)
       THEN IF fixed THEN [ok |-> FALSE, n |-> 0, rest |-> s]
            ELSE [ok |-> TRUE, n |-> DigitVal(s[1]), rest |-> Drop(s, 1)]
       ELSE [ok |-> TRUE, n |-> DigitVal(s[1]) * 10 + DigitVal(s[2]), rest |-> Drop(s, 2)]

\* time.lookup: the first name of tab that val starts with, letter case ignored
lookup(tab, val) ==
  With(Least({ i \in 1..Len(tab) :
                 /\ Len(val) >= Len(tab[i])
                 /\ ToLowerChar(val[1]) = ToLowerChar(tab[i][1])
                 /\ ToLower(Take(val, Len(tab[i]))) = ToLower(tab[i]) }),
       LAMBDA i : IF i = 0 THEN [ok |-> FALSE, n |-> 0, rest |-> val]
                  ELSE [ok |-> TRUE, n |-> i, rest |-> Drop(val, Len(tab[i]))])

\* the number of digits of s from position i on
RECURSIVE digitsFrom(_, _)
digitsFrom(s, i) == IF isDigit(s, i) THEN 1 + digitsFrom(s, i + 1) ELSE 0

\* the number of leading digits of s
leadingDigits(s) == digitsFrom(s, 1)

\* the number of leading upper-case letters of s, counted up to 6
RECURSIVE leadingUpper(_, _)
leadingUpper(s, n) ==
  IF n < 6 /\ Len(s) > n /\ s[n + 1] \in DOMAIN lowerOf
  THEN leadingUpper(s, n + 1) ELSE n

\* time.parseGMT: "GMT", with a signed hour offset when one follows
parseGMT(value) ==
  IF Len(value) < 5 \/ value[4] \notin {"+", "-"} \/ ~isDigit(value, 5) THEN 3
  ELSE With(digitsFrom(value, 5),
            LAMBDA d : IF atoi(SubSeq(value, 5, 4 + d)) > 23 THEN 3 ELSE 3 + 1 + d)

\* time.parseTimeZone: the length of the zone abbreviation value starts with,
\* 0 when it starts with none
parseTimeZone(value) ==
  IF Len(value) < 3 THEN 0
  ELSE IF Len(value) >= 4 /\ Take(value, 4) \in {<<"C","h","S","T">>, <<"M","e","S","T">>}
       THEN 4
  ELSE IF Take(value, 3) = <<"G","M","T">> THEN parseGMT(value)
  ELSE With(leadingUpper(value, 0),
            LAMBDA nUpper :
              CASE nUpper = 5 -> IF value[5] = "T" THEN 5 ELSE 0
                [] nUpper = 4 -> IF value[4] = "T" THEN 4 ELSE 0
                [] nUpper = 3 -> 3
                [] OTHER -> 0)

\* the fields time.Parse collects while it walks the layout
ParseStart(value) ==
  [ok |-> TRUE, v |-> value, year |-> 0, month |-> 1, day |-> 1,
   hour |-> 0, min |-> 0, sec |-> 0,
   zoneOffset |-> -1, zoneName |-> <<>>, z |-> FALSE]

Bad(st) == [st EXCEPT !.ok = FALSE]

\* stdLongYear "2006": four digits
ParseYear(st) ==
  IF Len(st.v) < 4 \/ ~AllDigits(Take(st.v, 4)) THEN Bad(st)
  ELSE [st EXCEPT !.year = atoi(Take(st.v, 4)), !.v = Drop(st.v, 4)]

\* stdYear "06": two digits, 69-99 in the 1900s and 00-68 in the 2000s
ParseShortYear(st) ==
  IF Len(st.v) < 2 \/ ~AllDigits(Take(st.v, 2)) THEN Bad(st)
  ELSE With(atoi(Take(st.v, 2)),
            LAMBDA y : [st EXCEPT !.year = IF y >= 69 THEN y + 1900 ELSE y + 2000,
                                  !.v = Drop(st.v, 2)])

\* stdMonth "Jan", stdLongMonth "January", stdWeekDay "Mon"
ParseName(tab, field, st) ==
  With(lookup(tab, st.v),
       LAMBDA r : IF ~r.ok THEN Bad(st)
                  ELSE IF field = "month" THEN [st EXCEPT !.month = r.n, !.v = r.rest]
                  ELSE [st EXCEPT !.v = r.rest])

\* stdZeroMonth "01", stdZeroDay "02", stdDay "2", stdHour "15",
\* stdZeroMinute "04": a number of one or two digits within its range
ParseNumber(field, fixed, low, high, st) ==
  With(getnum(st.v, fixed),
       LAMBDA r : IF ~r.ok \/ r.n < low \/ r.n > high THEN Bad(st)
                  ELSE [st EXCEPT ![field] = r.n, !.v = r.rest])

\* stdZeroSecond "05": a fractional second that the layout does not name is
\* read and dropped
ParseSecond(st) ==
  With(getnum(st.v, TRUE),
       LAMBDA r :
         IF ~r.ok \/ r.n >= 60 THEN Bad(st)
         ELSE IF Len(r.rest) >= 2 /\ r.rest[1] = "." /\ isDigit(r.rest, 2)
              THEN [st EXCEPT !.sec = r.n, !.v = Drop(r.rest, 1 + digitsFrom(r.rest, 2))]
              ELSE [st EXCEPT !.sec = r.n, !.v = r.rest])

\* stdNumTZ "-0700" (colon = 0) and stdNumColonTZ "-07:00" (colon = 1)
ParseOffset(colon, st) ==
  LET v == st.v IN
  IF /\ Len(v) >= 5 + colon
     /\ v[1] \in {"+", "-"}
     /\ colon = 1 => v[4] = ":"
     /\ AllDigits(SubSeq(v, 2, 3)) /\ AllDigits(SubSeq(v, 4 + colon, 5 + colon))
  THEN With((atoi(SubSeq(v, 2, 3)) * 60 + atoi(SubSeq(v, 4 + colon, 5 + colon))) * 60,
            LAMBDA secs : [st EXCEPT !.zoneOffset = IF v[1] = "-" THEN -secs ELSE secs,
                                     !.v = Drop(v, 5 + colon)])
  ELSE Bad(st)

\* stdTZ "MST": UTC, or a zone abbreviation
ParseZoneName(st) ==
  IF Len(st.v) >= 3 /\ Take(st.v, 3) = <<"U","T","C">>
  THEN [st EXCEPT !.z = TRUE, !.v = Drop(st.v, 3)]
  ELSE With(parseTimeZone(st.v),
            LAMBDA n : IF n = 0 THEN Bad(st)
                       ELSE [st EXCEPT !.zoneName = Take(st.v, n), !.v = Drop(st.v, n)])

\* one standard element of the layout read from the value
ParseStd(std, st) ==
  CASE std = "2006"    -> ParseYear(st)
    [] std = "06"      -> ParseShortYear(st)
    [] std = "Jan"     -> ParseName(shortMonthNames, "month", st)
    [] std = "January" -> ParseName(longMonthNames, "month", st)
    [] std = "Mon"     -> ParseName(shortDayNames, "weekday", st)
    [] std = "01"      -> ParseNumber("month", TRUE, 1, 12, st)
    [] std = "02"      -> ParseNumber("day", TRUE, 0, 99, st)
    [] std = "2"       -> ParseNumber("day", FALSE, 0, 99, st)
    [] std = "15"      -> ParseNumber("hour", FALSE, 0, 23, st)
    [] std = "04"      -> ParseNumber("min", TRUE, 0, 59, st)
    [] std = "05"      -> ParseSecond(st)
    [] std = "-0700"   -> ParseOffset(0, st)
    [] std = "-07:00"  -> ParseOffset(1, st)
    [] std = "MST"     -> ParseZoneName(st)

\* time.skip for one literal character of the layout: a space stands for any
\* run of spaces (none at the end of the value), any other character for itself
RECURSIVE spacesFrom(_, _)
spacesFrom(s, i) == IF Len(s) >= i /\ s[i] = " " THEN 1 + spacesFrom(s, i + 1) ELSE 0

cutspace(s) == Drop(s, spacesFrom(s, 1))

ParseLiteral(c, st) ==
  LET v == st.v IN
  IF c = " "
  THEN IF v # <<>> /\ v[1] # " " THEN Bad(st) ELSE [st EXCEPT !.v = cutspace(v)]
  ELSE IF v = <<>> \/ v[1] # c THEN Bad(st) ELSE [st EXCEPT !.v = Drop(v, 1)]

ParseChunk(chunk, st) ==
  IF chunk \in StdChunks THEN ParseStd(chunk, st) ELSE ParseLiteral(chunk, st)

RECURSIVE ParseChunksFrom(_, _, _)
ParseChunksFrom(layout, i, st) ==
  IF ~st.ok THEN st
  ELSE IF i > Len(layout) THEN (IF st.v = <<>> THEN st ELSE Bad(st))   \* extra text
  ELSE With(ParseChunk(layout[i], st), LAMBDA next : ParseChunksFrom(layout, i + 1, next))

ParseChunks(layout, st) == ParseChunksFrom(layout, 1, st)

isLeap(year) == year % 4 = 0 /\ (year % 100 # 0 \/ year % 400 = 0)

daysIn(month, year) ==
  IF month = 2 THEN (IF isLeap(year) THEN 29 ELSE 28)
  ELSE IF month \in {4, 6, 9, 11} THEN 30 ELSE 31

\* the days from 1970-01-01 to the given date of the proleptic Gregorian calendar
daysSinceEpoch(year, month, day) ==
  LET y   == IF month <= 2 THEN year - 1 ELSE year
      era == y \div 400
      yoe == y - era * 400
      doy == (153 * (IF month > 2 THEN month - 3 ELSE month + 9) + 2) \div 5 + day - 1
      doe == yoe * 365 + yoe \div 4 - yoe \div 100 + doy
  IN  era * 146097 + doe - 719468

S_UTC == <<"U","T","C">>

S_Local == <<"L","o","c","a","l">>

\* A time.Time: the instant, as a day count from 1970-01-01 and a second of
\* that day (both in UTC), and the location it is shown in, as the name and
\* the offset (seconds east of UTC) of its zone.
Time(day, sod, name, offset) ==
  [day |-> day + (sod \div 86400), sod |-> sod % 86400, zone |-> name, offset |-> offset]

\* time.Time{}: January 1, year 1, 00:00:00 UTC
ZeroTime == Time(daysSinceEpoch(1, 1, 1), 0, S_UTC, 0)

\* Time.UTC(): the same instant, shown in UTC
UTC(t) == [t EXCEPT !.zone = S_UTC, !.offset = 0]

\* time.Parse(layout, value). The process's Local location is UTC, as on the
\* App Engine runtime part_000 is written for.
timeFrom(st) ==
  LET wall == st.hour * 3600 + st.min * 60 + st.sec
      date == daysSinceEpoch(st.year, st.month, st.day)
  IN  IF ~st.ok \/ st.day < 1 \/ st.day > daysIn(st.month, st.year)
      THEN [ok |-> FALSE, t |-> ZeroTime]
      ELSE IF st.z THEN [ok |-> TRUE, t |-> Time(date, wall, S_UTC, 0)]
      ELSE IF st.zoneOffset # -1
           THEN [ok |-> TRUE,
                 t  |-> Time(date, wall - st.zoneOffset,
                             IF st.zoneOffset = 0 THEN S_Local ELSE st.zoneName,
                             st.zoneOffset)]
      ELSE IF st.zoneName # <<>>
           THEN LET gmt == IF Len(st.zoneName) > 3 /\ Take(st.zoneName, 3) = <<"G","M","T">>
                           THEN (IF st.zoneName[4] = "-" THEN -1 ELSE 1)
                                  * atoi(Drop(st.zoneName, 4)) * 3600
                           ELSE 0
                IN  [ok |-> TRUE, t |-> Time(date, wall, st.zoneName, gmt)]
      ELSE [ok |-> TRUE, t |-> Time(date, wall, S_UTC, 0)]

timeParse(layout, value) ==
  With(ParseChunks(layout, ParseStart(value)), LAMBDA st : timeFrom(st))

(***************************************************************************)
(* parseTime and parseRSS2Time                                             *)
(***************************************************************************)

\* parseTime(formats, timeSpec): the layouts tried in order, the first that
\* parses timeSpec wins. fmt is the position of that layout, 0 when none does.
RECURSIVE parseTimeFrom(_, _, _)
parseTimeFrom(formats, timeSpec, i) ==
  IF i > Len(formats) THEN [ok |-> FALSE, t |-> ZeroTime, fmt |-> 0]
  ELSE With(timeParse(formats[i], timeSpec),
            LAMBDA r : IF r.ok THEN [ok |-> TRUE, t |-> r.t, fmt |-> i]
                       ELSE parseTimeFrom(formats, timeSpec, i + 1))

parseTime(formats, timeSpec) == parseTimeFrom(formats, timeSpec, 1)

\* a Go error: nil, or errors.New(msg)
Nil == [isNil |-> TRUE, msg |-> <<>>]

NewError(msg) == [isNil |-> FALSE, msg |-> msg]

S_Unrecognized ==
  <<"U","n","r","e","c","o","g","n","i","z","e","d"," ",
    "t","i","m","e"," ","f","o","r","m","a","t",":"," ">>

\* rss2.go:257-264: the table walked in order, the first code that timeSpec
\* contains replaced (its first occurrence) by its offset, and the walk left.
\* codes are the codes replaced, in order.
RECURSIVE substituteFrom(_, _, _)
substituteFrom(tzs, timeSpec, i) ==
  IF i > Len(tzs) THEN [timeSpec |-> timeSpec, tryAgain |-> FALSE, codes |-> <<>>]
  ELSE IF Contains(timeSpec, tzs[i].Code)
       THEN [timeSpec |-> Replace(timeSpec, tzs[i].Code, tzs[i].Offset),
             tryAgain |-> TRUE,
             codes    |-> <<tzs[i].Code>>]
       ELSE substituteFrom(tzs, timeSpec, i + 1)

\* the walk without its `break`: every code the text contains is replaced
RECURSIVE substituteEveryFrom(_, _, _)
substituteEveryFrom(tzs, timeSpec, i) ==
  IF i > Len(tzs) THEN [timeSpec |-> timeSpec, tryAgain |-> FALSE, codes |-> <<>>]
  ELSE IF Contains(timeSpec, tzs[i].Code)
       THEN With(Replace(timeSpec, tzs[i].Code, tzs[i].Offset),
                 LAMBDA replaced :
                   With(substituteEveryFrom(tzs, replaced, i + 1),
                        LAMBDA rest : [timeSpec |-> rest.timeSpec, tryAgain |-> TRUE,
                                       codes |-> <<tzs[i].Code>> \o rest.codes]))
       ELSE substituteEveryFrom(tzs, timeSpec, i + 1)

substituteEveryCode(tzs, timeSpec) == substituteEveryFrom(tzs, timeSpec, 1)

substitute(tzs, timeSpec) == substituteFrom(tzs, timeSpec, 1)

\* rss2.go:246-250: the zone-name layout, for a text ending in " GMT" or " UTC"
zoneNameParse(timeSpec) ==
  IF HasSuffix(timeSpec, <<" ","G","M","T">>) \/ HasSuffix(timeSpec, <<" ","U","T","C">>)
  THEN With(timeParse(zoneNameLayout, timeSpec),
            LAMBDA r : [tried |-> TRUE, ok |-> r.ok, t |-> IF r.ok THEN UTC(r.t) ELSE ZeroTime])
  ELSE [tried |-> FALSE, ok |-> FALSE, t |-> ZeroTime]

\* rss2.go:272: the error of a text no attempt parsed
unrecognized(timeSpec) == NewError(S_Unrecognized \o timeSpec)

\* What parseRSS2Time returns: the time and the error, and beside them
\* steps, the attempts made in the order they were made; fmt, the position
\* of the layout that parsed the text (0: none); codes, the table codes
\* replaced; timeSpec, the local variable on return.
Returned(t, err, steps, fmt, codes, timeSpec) ==
  [t |-> t, err |-> err, steps |-> steps, fmt |-> fmt, codes |-> codes,
   timeSpec |-> timeSpec]

\* rss2.go:257-272: a table code replaced and the layouts tried again, the
\* table being tzs
parseSubstitutedIn(tzs, timeSpec, steps) ==
  With(substitute(tzs, timeSpec),
       LAMBDA sub :
         IF sub.tryAgain
         THEN With(parseTime(supportedRSS2TimeFormats, sub.timeSpec),
                   LAMBDA again :
                     IF again.ok
                     THEN Returned(again.t, Nil, steps \o <<"strings.Replace", "parseTime">>,
                                   again.fmt, sub.codes, sub.timeSpec)
                     ELSE Returned(ZeroTime, unrecognized(sub.timeSpec),
                                   steps \o <<"strings.Replace", "parseTime">>,
                                   0, sub.codes, sub.timeSpec))
         ELSE Returned(ZeroTime, unrecognized(sub.timeSpec), steps, 0, <<>>, sub.timeSpec))

\* rss2.go:257-272, the table being the package's timezones
parseSubstituted(timeSpec, steps) == parseSubstitutedIn(timezones, timeSpec, steps)

\* rss2.go:240-272: the attempts on a non-empty text, the table being tzs
parseNonEmptyIn(tzs, timeSpec) ==
  With(parseTime(supportedRSS2TimeFormats, timeSpec),
       LAMBDA first :
         IF first.ok
         THEN Returned(first.t, Nil, <<"parseTime">>, first.fmt, <<>>, timeSpec)
         ELSE With(zoneNameParse(timeSpec),
                   LAMBDA named :
                     IF named.ok
                     THEN Returned(named.t, Nil, <<"parseTime", "time.Parse">>, 0, <<>>, timeSpec)
                     ELSE parseSubstitutedIn(tzs, timeSpec,
                                             IF named.tried THEN <<"parseTime", "time.Parse">>
                                             ELSE <<"parseTime">>)))

\* rss2.go:240-272, the table being the package's timezones
parseNonEmpty(timeSpec) == parseNonEmptyIn(timezones, timeSpec)

\* rss2.go:238-276: what parseRSS2Time returns when init has left the table tzs
parseRSS2TimeIn(tzs, timeSpec) ==
  IF timeSpec # <<>> THEN parseNonEmptyIn(tzs, timeSpec)
  ELSE Returned(ZeroTime, Nil, <<>>, 0, <<>>, timeSpec)

\* parseRSS2Time without its test for the empty text
parseRSS2TimeUnguarded(timeSpec) == parseNonEmpty(timeSpec)

\* func parseRSS2Time(timeSpec string) (time.Time, error)
parseRSS2Time(timeSpec) == parseRSS2TimeIn(timezones, timeSpec)


(***************************************************************************)
(* rss2Entry.Marshal and rss2Feed.Marshal, rss2.go:136-236.                *)
(* Titles, links and contents are opaque texts; the texts the code cuts or *)
(* compares letter by letter (dates, rel, updatePeriod) are sequences of   *)
(* characters. A float is the exact quotient num/den, den > 0.             *)
(***************************************************************************)

\* the description preferred to the encoded content
resolveContentDescriptionFirst(nativeEntry) ==
  IF nativeEntry.Content = "" THEN nativeEntry.EncodedContent
  ELSE nativeEntry.Content

\* rss2.go:206-209: the encoded content, the description when it is empty
resolveContent(nativeEntry) ==
  IF nativeEntry.EncodedContent = "" THEN nativeEntry.Content
  ELSE nativeEntry.EncodedContent

\* rss2.go:226-233
flattenEnclosures(enclosures) ==
  [i \in 1..Len(enclosures) |-> [URL |-> enclosures[i].URL, Type |-> enclosures[i].Type]]

\* rss2.go:211-214 and 137-140: the date parsed when there is one
parseDate(timeSpec) ==
  IF timeSpec # <<>>
  THEN With(parseRSS2Time(timeSpec), LAMBDA r : [t |-> r.t, err |-> r.err])
  ELSE [t |-> ZeroTime, err |-> Nil]

\* func (nativeEntry *rss2Entry) Marshal() (entry *Entry, err error)
rss2EntryMarshal(nativeEntry) ==
  With(parseDate(nativeEntry.Published),
       LAMBDA parsed :
         [entry |-> [GUID      |-> nativeEntry.Id,
                     Author    |-> nativeEntry.Author,
                     Title     |-> nativeEntry.EntryTitle,
                     Content   |-> resolveContent(nativeEntry),
                     Published |-> parsed.t,
                     WWWURL    |-> nativeEntry.Link,
                     Media     |-> flattenEnclosures(nativeEntry.Enclosures)],
          err   |-> parsed.err])

AtomNS == "http://www.w3.org/2005/Atom"

S_self == <<"s","e","l","f">>

S_hub == <<"h","u","b">>

\* the rel tokens scanned to the end, without the two `break`s
RECURSIVE scanRelEveryToken(_, _, _, _)
scanRelEveryToken(rels, i, link, acc) ==
  IF i > Len(rels) THEN acc
  ELSE With(IF rels[i] = S_self THEN [acc EXCEPT !.topic = link.Href]
            ELSE IF rels[i] = S_hub THEN [acc EXCEPT !.hubURL = link.Href]
            ELSE acc,
            LAMBDA next : scanRelEveryToken(rels, i + 1, link, next))

\* rss2.go:150-158: the rel tokens in order, left at the first self or hub
RECURSIVE scanRel(_, _, _, _)
scanRel(rels, i, link, acc) ==
  IF i > Len(rels) THEN acc
  ELSE IF rels[i] = S_self THEN [acc EXCEPT !.topic = link.Href]
  ELSE IF rels[i] = S_hub THEN [acc EXCEPT !.hubURL = link.Href]
  ELSE scanRel(rels, i + 1, link, acc)

\* rss2.go:146-160
scanLink(link, acc) ==
  IF link.Space = "" THEN [acc EXCEPT !.linkUrl = link.Content]
  ELSE IF link.Space = AtomNS
       THEN With(Split(link.Rel), LAMBDA rels : scanRel(rels, 1, link, acc))
       ELSE acc

RECURSIVE scanLinks(_, _, _)
scanLinks(links, i, acc) ==
  IF i > Len(links) THEN acc
  ELSE With(scanLink(links[i], acc), LAMBDA next : scanLinks(links, i + 1, next))

Quotient(num, den) ==
  With(CHOOSE d \in 1..den : /\ num % d = 0 /\ den % d = 0
                             /\ \A e \in (d + 1)..den : ~(num % e = 0 /\ den % e = 0),
       LAMBDA g : [num |-> num \div g, den |-> den \div g])

\* num/den for any den # 0
Float(num, den) == IF den < 0 THEN Quotient(-num, -den) ELSE Quotient(num, den)

S_hourly == <<"h","o","u","r","l","y">>

S_daily == <<"d","a","i","l","y">>

S_weekly == <<"w","e","e","k","l","y">>

S_monthly == <<"m","o","n","t","h","l","y">>

S_yearly == <<"y","e","a","r","l","y">>

\* rss2.go:172-187. The hours of a period are counted in hundredths:
\* 24.0 * 30.42 = 730.08 and 24.0 * 365.25 = 8766.00.
hoursOf(updatePeriod) ==
  IF updatePeriod = S_hourly THEN 100
  ELSE IF updatePeriod = S_weekly THEN 24 * 7 * 100
  ELSE IF updatePeriod = S_monthly THEN 24 * 3042
  ELSE IF updatePeriod = S_yearly THEN 24 * 36525
  ELSE 24 * 100   \* if updatePeriod == "daily"

\* the period matched as written, without strings.ToLower
hourlyUpdateFrequencyCaseSensitive(nativeFeed) ==
  IF nativeFeed.UpdateFrequency # 0 /\ nativeFeed.UpdatePeriod # <<>>
  THEN Float(hoursOf(nativeFeed.UpdatePeriod), 100 * nativeFeed.UpdateFrequency)
  ELSE Float(0, 1)

hourlyUpdateFrequency(nativeFeed) ==
  IF nativeFeed.UpdateFrequency # 0 /\ nativeFeed.UpdatePeriod # <<>>
  THEN Float(hoursOf(ToLower(nativeFeed.UpdatePeriod)), 100 * nativeFeed.UpdateFrequency)
  ELSE Float(0, 1)

\* the test `err == nil` left out: the last error is kept
recordLastError(err, entryError) ==
  IF ~entryError.isNil THEN entryError ELSE err

\* rss2.go:195-197: the first error is kept
recordError(err, entryError) ==
  IF ~entryError.isNil /\ err.isNil THEN entryError ELSE err

\* the loop leaving out the entries whose Marshal returned an error
RECURSIVE marshalItemsSkippingFailed(_, _, _)
marshalItemsSkippingFailed(items, i, acc) ==
  IF i > Len(items) THEN acc
  ELSE With(rss2EntryMarshal(items[i]),
            LAMBDA r : With([Entries |-> IF r.err.isNil THEN Append(acc.Entries, r.entry)
                                         ELSE acc.Entries,
                             err     |-> recordError(acc.err, r.err)],
                            LAMBDA next : marshalItemsSkippingFailed(items, i + 1, next)))

\* rss2.go:189-199: every item marshalled into its place, in order
RECURSIVE marshalItems(_, _, _)
marshalItems(items, i, acc) ==
  IF i > Len(items) THEN acc
  ELSE With(rss2EntryMarshal(items[i]),
            LAMBDA r : With([Entries |-> Append(acc.Entries, r.entry),
                             err     |-> recordError(acc.err, r.err)],
                            LAMBDA next : marshalItems(items, i + 1, next)))

\* rss2.go:162-201: the feed built from the parsed date and the links, its
\* entries filled in, and the first error
feedFrom(nativeFeed, parsed, links) ==
  With(marshalItems(nativeFeed.Entry, 1, [Entries |-> <<>>, err |-> parsed.err]),
       LAMBDA items :
         [feed |-> [Title       |-> nativeFeed.Title,
                    Description |-> nativeFeed.Description,
                    Updated     |-> parsed.t,
                    WWWURL      |-> links.linkUrl,
                    Format      |-> "RSS2",
                    Topic       |-> links.topic,
                    HubURL      |-> links.hubURL,
                    HourlyUpdateFrequency |-> hourlyUpdateFrequency(nativeFeed),
                    Entries     |-> items.Entries],
          err  |-> items.err])

\* func (nativeFeed *rss2Feed) Marshal() (feed *Feed, err error)
rss2FeedMarshal(nativeFeed) ==
  With(parseDate(nativeFeed.Updated),
       LAMBDA parsed :
         With(scanLinks(nativeFeed.Link, 1, [linkUrl |-> "", topic |-> "", hubURL |-> ""]),
              LAMBDA links : feedFrom(nativeFeed, parsed, links)))

\* date and time texts as feeds carry them, each cut in a body and a zone part
TimeBodies ==
  { (* Mon, 02 Jan 2006 15:04:05 *)
    <<"M","o","n",","," ","0","2"," ","J","a","n"," ","2","0","0","6"," ","1","5",":","0","4",":","0","5">>,
    (* Mon, 2 Jan 2006 15:04:05 *)
    <<"M","o","n",","," ","2"," ","J","a","n"," ","2","0","0","6"," ","1","5",":","0","4",":","0","5">>,
    (* 2 Jan 2006 15:04:05 *)
    <<"2"," ","J","a","n"," ","2","0","0","6"," ","1","5",":","0","4",":","0","5">>,
    (* Mon, 2 Jan 2006 15:04 *)
    <<"M","o","n",","," ","2"," ","J","a","n"," ","2","0","0","6"," ","1","5",":","0","4">>,
    (* Mon, 2 Jan 06 15:04:05 *)
    <<"M","o","n",","," ","2"," ","J","a","n"," ","0","6"," ","1","5",":","0","4",":","0","5">>,
    (* 2006-01-02T15:04:05 *)
    <<"2","0","0","6","-","0","1","-","0","2","T","1","5",":","0","4",":","0","5">>,
    (* January 2, 2006 *)
    <<"J","a","n","u","a","r","y"," ","2",","," ","2","0","0","6">>,
    (* Mon, 2 Jan 2006 25:04:05 *)
    <<"M","o","n",","," ","2"," ","J","a","n"," ","2","0","0","6"," ","2","5",":","0","4",":","0","5">>,
    (* Mon, 30 Feb 2006 15:04:05 *)
    <<"M","o","n",","," ","3","0"," ","F","e","b"," ","2","0","0","6"," ","1","5",":","0","4",":","0","5">>,
    (* yesterday *)
    <<"y","e","s","t","e","r","d","a","y">> }

ZoneParts ==
  { (* '' *) <<>>,
    (* ' -0700' *) <<" ","-","0","7","0","0">>,
    (* '-07:00' *) <<"-","0","7",":","0","0">>,
    (* ' +0000' *) <<" ","+","0","0","0","0">>,
    (* ' Z' *) <<" ","Z">>,
    (* ' GMT' *) <<" ","G","M","T">>,
    (* ' UTC' *) <<" ","U","T","C">>,
    (* ' PST' *) <<" ","P","S","T">>,
    (* ' EST' *) <<" ","E","S","T">>,
    (* ' EEST' *) <<" ","E","E","S","T">>,
    (* ' AKST' *) <<" ","A","K","S","T">>,
    (* ' EST PST' *) <<" ","E","S","T"," ","P","S","T">>,
    (* ' XYZ' *) <<" ","X","Y","Z">>,
    (* ' EST GMT' *) <<" ","E","S","T"," ","G","M","T">> }

TimeSpecs == {<<>>} \cup { b \o z : b \in TimeBodies, z \in ZoneParts }

(***************************************************************************)
(* The documents rss2Feed.Marshal and rss2Entry.Marshal are called on      *)
(***************************************************************************)
MaxItems == 4

MaxLinks == 2

MaxEnclosures == 1

MaxFrequency == 3

D_good == (* Mon, 02 Jan 2006 15:04:05 -0700 *)
  <<"M","o","n",","," ","0","2"," ","J","a","n"," ","2","0","0","6"," ","1","5",":","0","4",":","0","5"," ","-","0","7","0","0">>

D_bad == (* yesterday *)
  <<"y","e","s","t","e","r","d","a","y">>

D_badCode == (* yesterday EST *)
  <<"y","e","s","t","e","r","d","a","y"," ","E","S","T">>

DateTexts == {<<>>, D_good, D_bad, D_badCode}

Enclosure(n) == [URL |-> "http://media/" \o ToString(n), Length |-> n, Type |-> "audio/mpeg"]

Item(id, published, encoded, description, enclosures) ==
  [Id |-> id, Published |-> published, EntryTitle |-> "title of " \o id,
   Link |-> "http://site/" \o id, Author |-> "author of " \o id,
   EncodedContent |-> encoded, Content |-> description,
   Enclosures |-> [i \in 1..enclosures |-> Enclosure(i)]]

\* the items rss2Entry.Marshal is called on
Items ==
  { Item("guid", d, e, c, n) :
      d \in DateTexts, e \in {"", "<p>encoded</p>"}, c \in {"", "description"},
      n \in 0..MaxEnclosures }

\* the items of the channels: one of each date text, the contents differing
ChannelItems ==
  { Item("good", D_good, "<p>encoded</p>", "description", 1),
    Item("bad", D_bad, "", "description", 0),
    Item("badCode", D_badCode, "<p>encoded</p>", "", 0),
    Item("undated", <<>>, "", "", 0) }

Link(space, content, rel, href) ==
  [Space |-> space, Content |-> content, Rel |-> rel, Href |-> href]

ChannelLinks ==
  { Link("", "http://site/", <<>>, ""),
    Link("", "http://other.site/", <<>>, ""),
    Link(AtomNS, "", S_self, "http://feed/self"),
    Link(AtomNS, "", S_hub, "http://hub/"),
    Link(AtomNS, "", S_self \o <<" ">> \o S_hub, "http://feed/self-hub"),
    Link(AtomNS, "", S_hub \o <<" ">> \o S_self, "http://feed/hub-self"),
    Link(AtomNS, "", <<"n","e","x","t">> \o <<" ">> \o S_hub, "http://feed/next-hub"),
    Link(AtomNS, "", <<"a","l","t","e","r","n","a","t","e">>, "http://feed/alternate"),
    Link("http://example.org/ns", "http://example.org/", S_self, "http://example.org/self") }

UpdatePeriods ==
  { <<>>, S_hourly, S_daily, S_weekly, S_monthly, S_yearly,
    <<"W","e","e","k","l","y">>, <<"H","O","U","R","L","Y">>,
    <<"f","o","r","t","n","i","g","h","t","l","y">> }

SeqsUpTo(S, n) == UNION { [1..k -> S] : k \in 0..n }

Channel(updated, links, items, period, frequency) ==
  [Title |-> "channel", Description |-> "about the channel", Updated |-> updated,
   Link |-> links, Entry |-> items, UpdatePeriod |-> period, UpdateFrequency |-> frequency]

\* the channels rss2Feed.Marshal is called on: every date text on the channel
\* and on up to MaxItems items; up to MaxLinks links; every update schedule
Channels ==
  { Channel(d, <<>>, items, <<>>, 0) :
      d \in DateTexts, items \in SeqsUpTo(ChannelItems, MaxItems) }
  \cup
  { Channel(D_good, links, <<>>, <<>>, 0) : links \in SeqsUpTo(ChannelLinks, MaxLinks) }
  \cup
  { Channel(<<>>, <<>>, <<>>, period, frequency) :
      period \in UpdatePeriods, frequency \in (0 - MaxFrequency)..MaxFrequency }

(***************************************************************************)
(* The subscribe handler, part_000:189-295                                 *)
(***************************************************************************)

\* regexp.ReplaceAllString for a literal pattern: every occurrence, left to right
RECURSIVE ReplaceAll(_, _, _)
ReplaceAll(s, old, new) ==
  With(Index(s, old),
       LAMBDA i : IF i = 0 THEN s
                  ELSE Take(s, i - 1) \o new \o ReplaceAll(Drop(s, i + Len(old) - 1), old, new))

S_schemeWWW == <<":","/","/","w","w","w",".">>

S_scheme == <<":","/","/">>

\* part_000:229-236: `www.` taken out after every ://, or put in when there is none
modifiedURL(url) ==
  IF Contains(url, S_schemeWWW) THEN ReplaceAll(url, S_schemeWWW, S_scheme)
  ELSE ReplaceAll(url, S_scheme, S_schemeWWW)

isLetter(c) == c \in DOMAIN lowerOf \/ c \in { lowerOf[u] : u \in DOMAIN lowerOf }

\* url.getscheme: the length of the scheme of rawurl, 0 when it has none
RECURSIVE schemeFrom(_, _)
schemeFrom(rawurl, i) ==
  IF i > Len(rawurl) THEN 0
  ELSE IF isLetter(rawurl[i]) THEN schemeFrom(rawurl, i + 1)
  ELSE IF i > 1 /\ (rawurl[i] \in {"+", "-", "."} \/ isDigit(rawurl, i))
       THEN schemeFrom(rawurl, i + 1)
  ELSE IF i > 1 /\ rawurl[i] = ":" THEN i - 1
  ELSE 0

\* part_000:199: url.ParseRequestURI returns no error. A request URI is "*",
\* an absolute path, or a URI with a scheme (the checks of the host and of
\* the escapes are left out).
ParseRequestURI(rawurl) ==
  /\ rawurl # <<>>
  /\ \/ rawurl = <<"*">>
     \/ rawurl[1] = "/"
     \/ schemeFrom(rawurl, 1) > 0

\* the storage package: what it answers from the datastore
FolderExists(st, folder) == folder \in st.folders

IsFeedAvailable(st, url) == url \in st.feeds

WebToFeedURL(st, url) == IF url \in DOMAIN st.web THEN st.web[url] ELSE <<>>

IsSubscriptionDuplicate(st, url) == url \in st.subscribed

\* NewReadableError(_l(message), ...), and an error handed on as it came
ReadableError(message) == [ok |-> FALSE, message |-> message]

StorageError == [ok |-> FALSE, message |-> "storage error"]

Queued == [ok |-> TRUE, message |-> "Your subscription has been queued for addition."]

NoResponse == [ok |-> FALSE, message |-> ""]

NoBody == [decodes |-> FALSE, link |-> <<>>, fetched |-> FALSE]

\* part_000:284-288
NewPOSTTask(url, folder, user) ==
  [path |-> "/tasks/subscribe", url |-> url, folderId |-> folder, userID |-> user]

\* the texts of the requests and of the documents
U_www == (* http://www.site.io/ *)
  <<"h","t","t","p",":","/","/","w","w","w",".","s","i","t","e",".","i","o","/">>

U_plain == (* http://site.io/ *)
  <<"h","t","t","p",":","/","/","s","i","t","e",".","i","o","/">>

U_feed == (* http://site.io/feed.xml *)
  <<"h","t","t","p",":","/","/","s","i","t","e",".","i","o","/","f","e","e","d",".","x","m","l">>

U_rss == (* http://site.io/rss.xml *)
  <<"h","t","t","p",":","/","/","s","i","t","e",".","i","o","/","r","s","s",".","x","m","l">>

U_invalid == (* site.io *)
  <<"s","i","t","e",".","i","o">>

RequestURLs == {<<>>, U_invalid, U_www, U_plain, U_feed}

RequestFolders == {"", "folder-1", "folder-2"}

UserID == "user-1"

\* the datastores: which feeds are stored, which pages are known to lead to
\* a feed, which feeds the user is subscribed to, which folders the user has
Stores ==
  { [feeds |-> f, web |-> w, subscribed |-> sub, folders |-> {"folder-1"}] :
      f \in {{}, {U_feed}, {U_feed, U_rss}},
      w \in [{U_www, U_plain} -> {<<>>, U_feed}],
      sub \in SUBSET {U_feed, U_rss} }

EmptyStore == [feeds |-> {}, web |-> [u \in {} |-> <<>>], subscribed |-> {}, folders |-> {}]

\* the documents a fetch can bring: whether rss.UnmarshalStream decodes the
\* document, and the link rss.ExtractRSSLink finds in it (<<>>: none)
Bodies ==
  { [decodes |-> d, link |-> l, fetched |-> TRUE] :
      d \in BOOLEAN, l \in {<<>>, U_feed, U_rss} }

\* one call of a collaborator: its argument, whether it failed, its result
Called(op, a, failed, out) == [op |-> op, arg |-> a, failed |-> failed, out |-> out]

InitHandler(stores) ==
  /\ store \in stores
  /\ pc = "idle"
  /\ subscriptionURL = <<>>
  /\ folderId = ""
  /\ body = NoBody
  /\ log = <<>>
  /\ tasks = <<>>
  /\ response = NoResponse

\* `return nil, err`
Return(value) == pc' = "done" /\ response' = value

Goto(label) == pc' = label /\ UNCHANGED response

\* part_000:197-204: what follows the reading of the form
afterForm(url, folder) ==
  IF url = <<>> THEN "Missing URL"
  ELSE IF ~ParseRequestURI(url) THEN "URL is not valid"
  ELSE IF folder # "" THEN "storage.FolderExists"
  ELSE "storage.IsFeedAvailable"

\* part_000:189-201
ReadForm ==
  /\ pc = "idle"
  /\ \E url \in RequestURLs, folder \in RequestFolders :
       /\ subscriptionURL' = url
       /\ folderId' = folder
       /\ \E next \in {afterForm(url, folder)} :
            IF next \in {"Missing URL", "URL is not valid"}
            THEN Return(ReadableError(next))
            ELSE Goto(next)
  /\ UNCHANGED <<store, body, log, tasks>>
  /\ UNCHANGED rssVars

\* part_000:203-214
CallFolderExists ==
  /\ pc = "storage.FolderExists"
  /\ \E failed \in BOOLEAN :
       \E exists \in {~failed /\ FolderExists(store, folderId)} :
         /\ log' = Append(log, Called("storage.FolderExists", folderId, failed, exists))
         /\ IF failed THEN Return(StorageError)
            ELSE IF ~exists THEN Return(ReadableError("Folder not found"))
            ELSE Goto("storage.IsFeedAvailable")
  /\ UNCHANGED <<store, subscriptionURL, folderId, body, tasks>>
  /\ UNCHANGED rssVars

\* part_000:216-221
CallIsFeedAvailable ==
  /\ pc = "storage.IsFeedAvailable"
  /\ \E failed \in BOOLEAN :
       \E exists \in {~failed /\ IsFeedAvailable(store, subscriptionURL)} :
         /\ log' = Append(log, Called("storage.IsFeedAvailable", subscriptionURL, failed, exists))
         /\ IF failed THEN Return(StorageError)
            ELSE IF ~exists THEN Goto("storage.WebToFeedURL")
            ELSE Goto("storage.IsSubscriptionDuplicate")
  /\ UNCHANGED <<store, subscriptionURL, folderId, body, tasks>>
  /\ UNCHANGED rssVars

\* part_000:222-226
CallWebToFeedURL ==
  /\ pc = "storage.WebToFeedURL"
  /\ \E failed \in BOOLEAN :
       \E feedURL \in {IF failed THEN <<>> ELSE WebToFeedURL(store, subscriptionURL)} :
         /\ log' = Append(log, Called("storage.WebToFeedURL", subscriptionURL, failed, feedURL))
         /\ IF failed THEN Return(StorageError) /\ UNCHANGED subscriptionURL
            ELSE IF feedURL # <<>>
                 THEN subscriptionURL' = feedURL /\ Goto("storage.IsSubscriptionDuplicate")
                 ELSE UNCHANGED subscriptionURL /\ Goto("storage.WebToFeedURL modified")
  /\ UNCHANGED <<store, folderId, body, tasks>>
  /\ UNCHANGED rssVars

\* part_000:227-243
CallWebToFeedURLModified ==
  /\ pc = "storage.WebToFeedURL modified"
  /\ \E failed \in BOOLEAN :
       \E feedURL \in {IF failed THEN <<>> ELSE WebToFeedURL(store, modifiedURL(subscriptionURL))} :
         /\ log' = Append(log, Called("storage.WebToFeedURL",
                                      modifiedURL(subscriptionURL), failed, feedURL))
         /\ IF failed THEN Return(StorageError) /\ UNCHANGED subscriptionURL
            ELSE /\ subscriptionURL' = IF feedURL # <<>> THEN feedURL ELSE subscriptionURL
                 /\ Goto("storage.IsSubscriptionDuplicate")
  /\ UNCHANGED <<store, folderId, body, tasks>>
  /\ UNCHANGED rssVars

\* part_000:246-250
CallIsSubscriptionDuplicate ==
  /\ pc = "storage.IsSubscriptionDuplicate"
  /\ \E failed \in BOOLEAN :
       \E subscribed \in {~failed /\ IsSubscriptionDuplicate(store, subscriptionURL)} :
         /\ log' = Append(log, Called("storage.IsSubscriptionDuplicate",
                                      subscriptionURL, failed, subscribed))
         /\ IF failed THEN Return(StorageError)
            ELSE IF subscribed THEN Return(ReadableError("You are already subscribed"))
            ELSE Goto("storage.IsFeedAvailable again")
  /\ UNCHANGED <<store, subscriptionURL, folderId, body, tasks>>
  /\ UNCHANGED rssVars

\* part_000:252-256
CallIsFeedAvailableAgain ==
  /\ pc = "storage.IsFeedAvailable again"
  /\ \E failed \in BOOLEAN :
       \E exists \in {~failed /\ IsFeedAvailable(store, subscriptionURL)} :
         /\ log' = Append(log, Called("storage.IsFeedAvailable", subscriptionURL, failed, exists))
         /\ IF failed THEN Return(StorageError)
            ELSE IF ~exists THEN Goto("client.Get")
            ELSE Goto("taskqueue.Add")
  /\ UNCHANGED <<store, subscriptionURL, folderId, body, tasks>>
  /\ UNCHANGED rssVars

\* part_000:257-260: the fetch fails, or brings a document
CallGet ==
  /\ pc = "client.Get"
  /\ \E failed \in BOOLEAN, document \in Bodies :
       /\ log' = Append(log, Called("client.Get", subscriptionURL, failed, ~failed))
       /\ IF failed
          THEN /\ Return(ReadableError("An error occurred while downloading the feed"))
               /\ UNCHANGED body
          ELSE body' = document /\ Goto("ioutil.ReadAll")
  /\ UNCHANGED <<store, subscriptionURL, folderId, tasks>>
  /\ UNCHANGED rssVars

\* part_000:261-268
CallReadAll ==
  /\ pc = "ioutil.ReadAll"
  /\ \E failed \in BOOLEAN :
       /\ log' = Append(log, Called("ioutil.ReadAll", subscriptionURL, failed, ~failed))
       /\ IF failed THEN Return(ReadableError("An error occurred while reading the feed"))
          ELSE Goto("rss.UnmarshalStream")
  /\ UNCHANGED <<store, subscriptionURL, folderId, body, tasks>>
  /\ UNCHANGED rssVars

\* the link looked for whether or not the document decoded
afterDecodeAlwaysExtract(failed) == "rss.ExtractRSSLink"

\* part_000:271-275: the link is looked for when the decoding failed
afterDecode(failed) == IF failed THEN "rss.ExtractRSSLink" ELSE "taskqueue.Add"

\* part_000:270-271
CallUnmarshalStream ==
  /\ pc = "rss.UnmarshalStream"
  /\ log' = Append(log, Called("rss.UnmarshalStream", subscriptionURL, ~body.decodes, body.decodes))
  /\ Goto(afterDecode(~body.decodes))
  /\ UNCHANGED <<store, subscriptionURL, folderId, body, tasks>>
  /\ UNCHANGED rssVars

\* part_000:275-279
CallExtractRSSLink ==
  /\ pc = "rss.ExtractRSSLink"
  /\ log' = Append(log, Called("rss.ExtractRSSLink", subscriptionURL, body.link = <<>>, body.link))
  /\ IF body.link = <<>>
     THEN Return(ReadableError("RSS content not found")) /\ UNCHANGED subscriptionURL
     ELSE subscriptionURL' = body.link /\ Goto("taskqueue.Add")
  /\ UNCHANGED <<store, folderId, body, tasks>>
  /\ UNCHANGED rssVars

\* part_000:284-294
CallTaskqueueAdd ==
  /\ pc = "taskqueue.Add"
  /\ \E failed \in BOOLEAN :
       /\ log' = Append(log, Called("taskqueue.Add", subscriptionURL, failed, ~failed))
       /\ IF failed
          THEN Return(ReadableError("Cannot subscribe - too busy")) /\ UNCHANGED tasks
          ELSE /\ tasks' = Append(tasks, NewPOSTTask(subscriptionURL, folderId, UserID))
               /\ Return(Queued)
  /\ UNCHANGED <<store, subscriptionURL, folderId, body>>
  /\ UNCHANGED rssVars

(***************************************************************************)
(* Specifications.                                                         *)
(* SpecTime: the package initialised under every iteration order drawn,    *)
(* then parseRSS2Time called on a text.                                    *)
(* Spec: the package initialised, then one of parseRSS2Time,               *)
(* rss2Entry.Marshal and rss2Feed.Marshal called. Marshal reads the table  *)
(* through parseRSS2Time only; Spec draws the listing order and its        *)
(* reverse, in which every two entries come in both relative orders.       *)
(* SpecSubscribe: one request handled by subscribe, call by call, over     *)
(* every datastore of Stores; a call of a collaborator may fail.           *)
(***************************************************************************)
InitWith(orders) ==
  /\ \E order \in orders : timezones = init(order)
  /\ call = "init"
  /\ arg = <<>>
  /\ ret = <<>>
  /\ InitHandler({EmptyStore})

InitPackage == InitWith(MapOrders)

InitListing == InitWith({tzMap, Reverse(tzMap)})

CallParseRSS2Time ==
  /\ call = "init"
  /\ \E timeSpec \in TimeSpecs :
       /\ call' = "parseRSS2Time"
       /\ arg' = timeSpec
       /\ ret' = parseRSS2Time(timeSpec)
  /\ UNCHANGED timezones
  /\ UNCHANGED handlerVars

CallEntryMarshal ==
  /\ call = "init"
  /\ \E nativeEntry \in Items :
       /\ call' = "rss2Entry.Marshal"
       /\ arg' = nativeEntry
       /\ ret' = rss2EntryMarshal(nativeEntry)
  /\ UNCHANGED timezones
  /\ UNCHANGED handlerVars

CallFeedMarshal ==
  /\ call = "init"
  /\ \E nativeFeed \in Channels :
       /\ call' = "rss2Feed.Marshal"
       /\ arg' = nativeFeed
       /\ ret' = rss2FeedMarshal(nativeFeed)
  /\ UNCHANGED timezones
  /\ UNCHANGED handlerVars

NextTime == CallParseRSS2Time

SpecTime == InitPackage /\ [][NextTime]_vars

Next == CallParseRSS2Time \/ CallEntryMarshal \/ CallFeedMarshal

Spec == InitListing /\ [][Next]_vars

InitSubscribe ==
  /\ timezones = init(tzMap)
  /\ call = "init"
  /\ arg = <<>>
  /\ ret = <<>>
  /\ InitHandler(Stores)

NextSubscribe ==
  \/ ReadForm
  \/ CallFolderExists
  \/ CallIsFeedAvailable
  \/ CallWebToFeedURL
  \/ CallWebToFeedURLModified
  \/ CallIsSubscriptionDuplicate
  \/ CallIsFeedAvailableAgain
  \/ CallGet
  \/ CallReadAll
  \/ CallUnmarshalStream
  \/ CallExtractRSSLink
  \/ CallTaskqueueAdd

SpecSubscribe == InitSubscribe /\ [][NextSubscribe]_vars

(***************************************************************************)
(* Properties of parseRSS2Time, under SpecTime                             *)
(***************************************************************************)
Parsed == call = "parseRSS2Time"

Failed == Parsed /\ ~ret.err.isNil

\* the table codes the text contains
CodesIn(timeSpec) ==
  { timezones[i].Code : i \in { j \in 1..Len(timezones) : Contains(timeSpec, timezones[j].Code) } }

\* C4: when every attempt on a non-empty text fails, parseRSS2Time returns the
\* zero timestamp and an error that carries the text exactly as it was passed,
\* also when a timezone code was replaced before the last attempt.
C4_FailureCarriesOriginal ==
  Failed => ret.t = ZeroTime /\ Contains(ret.err.msg, arg)

\* C5: the table is ordered by non-increasing code length in every state and no
\* step writes it, so the code parseRSS2Time replaces is never shorter than
\* another table code the text contains (EEST, not EST).
TableSorted ==
  \A i, j \in 1..Len(timezones) :
    i < j => Len(timezones[i].Code) >= Len(timezones[j].Code)

LongestCodeReplaced ==
  Parsed =>
    \A i \in 1..Len(ret.codes) : \A c \in CodesIn(arg) : Len(c) <= Len(ret.codes[i])

C5_LongestCodeFirst ==
  /\ [](TableSorted /\ LongestCodeReplaced)
  /\ [][timezones' = timezones]_vars

S_EEST == <<"E","E","S","T">>

C5_Witness ==
  /\ Parsed
  /\ Contains(arg, S_EEST)
  /\ ret.codes = <<S_EEST>>
  /\ Contains(ret.timeSpec, <<"+","0","3","0","0">>)
  /\ ~Contains(ret.timeSpec, <<"-","0","5","0","0">>)

\* C6: parseRSS2Time makes its attempts in a fixed order, each only after the
\* one before failed: the layout list (the first layout that parses wins);
\* for a text ending in " GMT" or " UTC" the zone-name layout, its result
\* shown in UTC; then one table code replaced once by its offset and the
\* layout list tried once more. A text an earlier attempt parsed is returned
\* unchanged, and no call replaces more than one code or retries more than once.
Count(steps, x) == Cardinality({ i \in 1..Len(steps) : steps[i] = x })

EndsInZoneName(timeSpec) ==
  HasSuffix(timeSpec, <<" ","G","M","T">>) \/ HasSuffix(timeSpec, <<" ","U","T","C">>)

C6_StagesInOrder ==
  Parsed /\ arg # <<>> =>
    LET first == parseTime(supportedRSS2TimeFormats, arg)
        named == timeParse(zoneNameLayout, arg)
        steps == ret.steps
    IN  /\ steps \in { <<"parseTime">>,
                       <<"parseTime", "time.Parse">>,
                       <<"parseTime", "strings.Replace", "parseTime">>,
                       <<"parseTime", "time.Parse", "strings.Replace", "parseTime">> }
        /\ Len(ret.codes) = Count(steps, "strings.Replace")
        \* the first attempt: the first layout that parses the text wins
        /\ first.ok =>
             /\ steps = <<"parseTime">>
             /\ ret.err.isNil /\ ret.t = first.t /\ ret.timeSpec = arg
             /\ ret.fmt >= 1
             /\ timeParse(supportedRSS2TimeFormats[ret.fmt], arg).ok
             /\ \A k \in 1..(ret.fmt - 1) : ~timeParse(supportedRSS2TimeFormats[k], arg).ok
        \* the zone-name layout: only after the list failed, only on the two
        \* suffixes, and its result is in UTC
        /\ Count(steps, "time.Parse") = 1 <=> (~first.ok /\ EndsInZoneName(arg))
        /\ (~first.ok /\ EndsInZoneName(arg) /\ named.ok) =>
             /\ steps = <<"parseTime", "time.Parse">>
             /\ ret.err.isNil /\ ret.timeSpec = arg
             /\ ret.t.zone = S_UTC /\ ret.t.offset = 0
             /\ ret.t.day = named.t.day /\ ret.t.sod = named.t.sod
        \* the replacement: only after both failed, one code, one occurrence
        /\ Count(steps, "strings.Replace") = 1 =>
             /\ ~first.ok
             /\ ~(EndsInZoneName(arg) /\ named.ok)
             /\ \E i \in 1..Len(timezones) :
                  /\ ret.codes = <<timezones[i].Code>>
                  /\ Contains(arg, timezones[i].Code)
                  /\ ret.timeSpec = Replace(arg, timezones[i].Code, timezones[i].Offset)
                  /\ Len(ret.timeSpec) = Len(arg) - Len(timezones[i].Code) + Len(timezones[i].Offset)
        /\ Count(steps, "strings.Replace") = 0 => ret.timeSpec = arg

C6_Witness ==
  /\ Parsed
  /\ ret.steps = <<"parseTime", "time.Parse", "strings.Replace", "parseTime">>
  /\ ret.codes = <<<<"E","S","T">>>>
  /\ ~ret.err.isNil

\* what parseRSS2Time returns on the same text when init drew the listing
\* order of the map
UnderListingOrder == parseRSS2TimeIn(init(tzMap), arg)

SameTime == Parsed => ret.t = UnderListingOrder.t

SameOutcome == Parsed => ret.err.isNil = UnderListingOrder.err.isNil

SameErrorText == Parsed => ret.err.msg = UnderListingOrder.err.msg

\* C12: what parseRSS2Time returns for a text (its timestamp, whether it
\* fails, and the text of its error) is the same under every order in which
\* init can have filled the table from the map: it is what the call returns
\* under the listing order, also for a text with two table codes of the same
\* length.
C12_TableOrderIrrelevant == SameTime /\ SameOutcome /\ SameErrorText

(***************************************************************************)
(* Properties of rss2Feed.Marshal and rss2Entry.Marshal, under Spec        *)
(***************************************************************************)
Marshalled == call = "rss2Feed.Marshal"

EntryMarshalled == call = "rss2Entry.Marshal"

\* the error of a date field: nil for an empty one and for one that parses
DateError(timeSpec) == parseRSS2Time(timeSpec).err

\* the errors of the date fields in the order channel, item 1, item 2, ...
FieldErrors(nativeFeed) ==
  <<DateError(nativeFeed.Updated)>>
    \o [i \in 1..Len(nativeFeed.Entry) |-> DateError(nativeFeed.Entry[i].Published)]

FirstError(errs) ==
  With(Least({ i \in 1..Len(errs) : ~errs[i].isNil }),
       LAMBDA i : IF i = 0 THEN Nil ELSE errs[i])

\* C1: rss2Feed.Marshal returns a feed with one entry for every item, in the
\* order of the items, whatever dates fail; its error is the first failure in
\* the order channel date, item 1, item 2, ..., and nil exactly when no date
\* field failed to parse.
C1_FirstErrorAllEntries ==
  Marshalled =>
    With(FieldErrors(arg),
         LAMBDA errs :
           /\ ret.feed.Format = "RSS2"
           /\ Len(ret.feed.Entries) = Len(arg.Entry)
           /\ \A i \in 1..Len(arg.Entry) :
                ret.feed.Entries[i] = rss2EntryMarshal(arg.Entry[i]).entry
           /\ ret.err = FirstError(errs)
           /\ ret.err.isNil <=> \A i \in 1..Len(errs) : errs[i].isNil)

C1_Witness ==
  /\ Marshalled
  /\ arg.Updated = D_good
  /\ Len(arg.Entry) = 3
  /\ arg.Entry[1].Published = D_good
  /\ arg.Entry[2].Published = D_badCode
  /\ arg.Entry[3].Published = D_bad
  /\ Len(ret.feed.Entries) = 3
  /\ ret.err = DateError(D_badCode)
  /\ ret.err # DateError(D_bad)

\* an item whose pubDate no attempt parses
Malformed(item) == ~DateError(item.Published).isNil

OneMalformedAmongFour(nativeFeed) ==
  /\ Len(nativeFeed.Entry) = 4
  /\ Cardinality({ i \in 1..4 : Malformed(nativeFeed.Entry[i]) }) = 1

\* C2, as claimed: of four items, one of them malformed, Marshal returns
\* exactly the three well-formed entries, and a non-nil error.
C2_OnlyWellFormedReturned ==
  (Marshalled /\ OneMalformedAmongFour(arg)) =>
    /\ Len(ret.feed.Entries) = 3
    /\ ret.feed.Entries =
         SelectSeq([i \in 1..4 |-> rss2EntryMarshal(arg.Entry[i]).entry],
                   LAMBDA e : \E i \in 1..4 : /\ ~Malformed(arg.Entry[i])
                                              /\ e = rss2EntryMarshal(arg.Entry[i]).entry)
    /\ ~ret.err.isNil

\* C2, amended: of four items, one of them malformed, Marshal returns all four
\* entries in the order of the items, the malformed one with the zero
\* Published time and its other fields filled, and a non-nil error.
C2_MalformedEntryKept ==
  (Marshalled /\ OneMalformedAmongFour(arg)) =>
    /\ Len(ret.feed.Entries) = 4
    /\ \A i \in 1..4 :
         /\ ret.feed.Entries[i].GUID = arg.Entry[i].Id
         /\ ret.feed.Entries[i].Title = arg.Entry[i].EntryTitle
         /\ Malformed(arg.Entry[i]) => ret.feed.Entries[i].Published = ZeroTime
         /\ ~Malformed(arg.Entry[i]) =>
              ret.feed.Entries[i].Published = parseRSS2Time(arg.Entry[i].Published).t
    /\ ~ret.err.isNil

C2_Witness ==
  /\ Marshalled
  /\ OneMalformedAmongFour(arg)
  /\ arg.Updated = D_good
  /\ Malformed(arg.Entry[2])
  /\ \A i \in {1, 3, 4} : arg.Entry[i].Published = D_good
  /\ Len(ret.feed.Entries) = 4
  /\ ret.feed.Entries[2].Published = ZeroTime

\* C3: parseRSS2Time of the empty text is the zero time and no error; and an
\* empty channel or item date gives the zero time in Updated or Published and
\* adds no error: an error Marshal returns is the error of a non-empty date.
C3_EmptyDateIsNoFailure ==
  /\ (call = "parseRSS2Time" /\ arg = <<>>) => (ret.t = ZeroTime /\ ret.err = Nil)
  /\ (EntryMarshalled /\ arg.Published = <<>>) =>
       (ret.entry.Published = ZeroTime /\ ret.err = Nil)
  /\ Marshalled =>
       /\ arg.Updated = <<>> => ret.feed.Updated = ZeroTime
       /\ \A i \in 1..Len(arg.Entry) :
            arg.Entry[i].Published = <<>> => ret.feed.Entries[i].Published = ZeroTime
       /\ ~ret.err.isNil =>
            \E d \in {arg.Updated} \cup { arg.Entry[i].Published : i \in 1..Len(arg.Entry) } :
              d # <<>> /\ ret.err = parseNonEmpty(d).err
       /\ (/\ arg.Updated = <<>>
           /\ \A i \in 1..Len(arg.Entry) : arg.Entry[i].Published = <<>>) => ret.err = Nil

C3_Witness ==
  /\ Marshalled
  /\ arg.Updated = <<>>
  /\ Len(arg.Entry) = 2
  /\ \A i \in 1..2 : arg.Entry[i].Published = <<>>
  /\ ret.feed.Updated = ZeroTime
  /\ ret.err = Nil

\* C7: the Content of an entry is the encoded content of its item when that
\* is not empty, and the description of the item otherwise.
ContentRule(item, entry) ==
  IF item.EncodedContent # "" THEN entry.Content = item.EncodedContent
  ELSE entry.Content = item.Content

C7_EncodedContentWins ==
  /\ EntryMarshalled => ContentRule(arg, ret.entry)
  /\ Marshalled => \A i \in 1..Len(arg.Entry) : ContentRule(arg.Entry[i], ret.feed.Entries[i])

C7_Witness ==
  /\ EntryMarshalled
  /\ arg.EncodedContent = "<p>encoded</p>"
  /\ arg.Content = "description"
  /\ ret.entry.Content = "<p>encoded</p>"

\* C8: HourlyUpdateFrequency is zero when updateFrequency is 0 or updatePeriod
\* is empty, and otherwise H / updateFrequency, H by the lower-cased period:
\* hourly 1, daily 24, weekly 168, monthly 24*30.42, yearly 24*365.25, and 24
\* for any other period. (H in hundredths; num/den = H/(100*frequency).)
HundredthsOfHours(period) ==
  CASE period = S_hourly  -> 100
    [] period = S_daily   -> 2400
    [] period = S_weekly  -> 16800
    [] period = S_monthly -> 73008
    [] period = S_yearly  -> 876600
    [] OTHER              -> 2400

C8_HourlyUpdateFrequency ==
  Marshalled =>
    LET f == ret.feed.HourlyUpdateFrequency IN
    /\ f.den > 0
    /\ IF arg.UpdateFrequency = 0 \/ arg.UpdatePeriod = <<>>
       THEN f.num = 0
       ELSE f.num * 100 * arg.UpdateFrequency
              = HundredthsOfHours(ToLower(arg.UpdatePeriod)) * f.den

C8_Witness ==
  /\ Marshalled
  /\ arg.UpdatePeriod = <<"W","e","e","k","l","y">>
  /\ arg.UpdateFrequency = 2
  /\ ret.feed.HourlyUpdateFrequency = [num |-> 84, den |-> 1]

\* the last link of the channel with property P, 0 when there is none
LastLink(links, P(_)) ==
  IF \E i \in 1..Len(links) : P(links[i])
  THEN CHOOSE i \in 1..Len(links) : P(links[i]) /\ \A j \in (i + 1)..Len(links) : ~P(links[j])
  ELSE 0

HasToken(link, token) ==
  link.Space = AtomNS /\ \E i \in 1..Len(Split(link.Rel)) : Split(link.Rel)[i] = token

\* the first token of rel that is self or hub, <<>> when there is none
FirstRelation(link) ==
  With(Split(link.Rel),
       LAMBDA rels :
         With(Least({ i \in 1..Len(rels) : rels[i] \in {S_self, S_hub} }),
              LAMBDA i : IF i = 0 THEN <<>> ELSE rels[i]))

Decides(link, token) == link.Space = AtomNS /\ FirstRelation(link) = token

LinksGive(links, feed, IsSelf(_), IsHub(_)) ==
  /\ feed.WWWURL = With(LastLink(links, LAMBDA l : l.Space = ""),
                        LAMBDA i : IF i = 0 THEN "" ELSE links[i].Content)
  /\ feed.Topic = With(LastLink(links, IsSelf),
                       LAMBDA i : IF i = 0 THEN "" ELSE links[i].Href)
  /\ feed.HubURL = With(LastLink(links, IsHub),
                        LAMBDA i : IF i = 0 THEN "" ELSE links[i].Href)

\* C9, as claimed: WWWURL is the text of the (last) link without namespace;
\* Topic is the href of the (last) Atom link whose rel contains the token
\* self, HubURL that of the (last) Atom link whose rel contains the token hub;
\* both are empty when there is no such link.
C9_AnyRelTokenCounts ==
  Marshalled =>
    LinksGive(arg.Link, ret.feed,
              LAMBDA l : HasToken(l, S_self), LAMBDA l : HasToken(l, S_hub))

\* C9, amended: WWWURL is the text of the last link without namespace; an
\* Atom link gives Topic when the first token of its rel that is self or hub
\* is self, and HubURL when that token is hub (a rel naming both gives only
\* the one named first); of several such links the last one counts; Topic
\* and HubURL are empty when no link gives them, and no Atom link changes
\* WWWURL.
C9_FirstRelTokenCounts ==
  Marshalled =>
    LinksGive(arg.Link, ret.feed,
              LAMBDA l : Decides(l, S_self), LAMBDA l : Decides(l, S_hub))

C9_Witness ==
  /\ Marshalled
  /\ Len(arg.Link) = 2
  /\ arg.Link[1].Space = ""
  /\ arg.Link[2].Rel = S_self \o <<" ">> \o S_hub
  /\ ret.feed.WWWURL = arg.Link[1].Content
  /\ ret.feed.Topic = arg.Link[2].Href
  /\ ret.feed.HubURL = ""

(***************************************************************************)
(* Properties of subscribe, under SpecSubscribe                            *)
(***************************************************************************)
\* the positions of the calls of op in the log
Calls(op) == { i \in 1..Len(log) : log[i].op = op }

\* C10: subscribe calls rss.ExtractRSSLink only right after rss.UnmarshalStream
\* returned an error for the fetched document; when the document decodes, the
\* extraction is never called and the task queued carries the URL that was
\* fetched; when the extraction finds no link the request fails and no task
\* is queued; and no fetch follows the extraction (the handler fetches once
\* at most, and never the extracted link).
C10_ExtractionOnlyAfterFailedDecode ==
  /\ \A i \in Calls("rss.ExtractRSSLink") :
       /\ i > 1
       /\ log[i - 1].op = "rss.UnmarshalStream"
       /\ log[i - 1].failed
       /\ \A j \in (i + 1)..Len(log) : log[j].op # "client.Get"
       /\ log[i].out = <<>> => (pc = "done" /\ ~response.ok /\ tasks = <<>>)
  /\ \A i \in Calls("rss.UnmarshalStream") :
       ~log[i].failed =>
         /\ Calls("rss.ExtractRSSLink") = {}
         /\ \A k \in 1..Len(tasks) :
              \E g \in Calls("client.Get") :
                g < i /\ ~log[g].failed /\ tasks[k].url = log[g].arg
  /\ Cardinality(Calls("client.Get")) <= 1
  /\ pc = "rss.ExtractRSSLink" =>
       (log # <<>> /\ log[Len(log)].op = "rss.UnmarshalStream" /\ log[Len(log)].failed)

C10_Witness ==
  /\ pc = "done"
  /\ response = Queued
  /\ \E g \in Calls("client.Get") : log[g].arg = U_plain
  /\ \E i \in Calls("rss.ExtractRSSLink") : log[i].out = U_rss
  /\ tasks = <<NewPOSTTask(U_rss, folderId, UserID)>>

\* C11: whenever subscribe has queued a /tasks/subscribe task, the user is not
\* already subscribed to the URL the task carries, whichever way that URL was
\* arrived at (as posted, through the web-to-feed lookup, through the www
\* retry, or as the autodiscovery link); and a request that returned an
\* error has queued no task.
C11_NoTaskForSubscribedURL ==
  /\ \A k \in 1..Len(tasks) :
       /\ tasks[k].path = "/tasks/subscribe"
       /\ ~IsSubscriptionDuplicate(store, tasks[k].url)
  /\ (pc = "done" /\ ~response.ok) => tasks = <<>>

====
